---- MODULE Spec2Model ----
(***************************************************************************)
(* EzDawg: signed-request authentication and the SIP plan store.           *)
(*                                                                         *)
(* Clients build a signable message (createSignatureMessage), sign it with *)
(* a wallet key and send it with a JSON body to /api/sip.  The route       *)
(* handlers POST and PATCH verify the signature (verifySignature) and call *)
(* the plan service, which calls the database service.                     *)
(*                                                                         *)
(* Strings are modelled as sequences of pieces: a piece is a run of text   *)
(* or a run of decimal digits.  A template literal is the concatenation of *)
(* the pieces of its parts, and the regular expression of verifySignature  *)
(* is evaluated over the pieces, leftmost match first, as String.match     *)
(* does.  A signature is the pair (signer, signed message): recovering the *)
(* address over the signed message gives the signer, recovering over any   *)
(* other message gives an address nobody holds the key of.                 *)
(*                                                                         *)
(* The browser side is the agent bootstrap (initializeAgent and the two    *)
(* useInitializeAgent hooks) over localStorage, the client store and the   *)
(* exchange's delegate lists; SpecAgent runs it in two tabs, SpecApproval  *)
(* is checkAgentApproval alone, SpecList is GET /api/sip over the tables.  *)
(***************************************************************************)
EXTENDS Integers, Sequences, FiniteSets, TLC

VARIABLES now, users, sips, wire, last,
          storage, exchange, store, runs, listing

\* the server side: clock, tables, request in flight, last response
serverVars == <<now, users, sips, wire, last>>

\* the browser side: localStorage, the exchange's delegate lists, each
\* browser context's client store and its run of the agent bootstrap
agentVars == <<storage, exchange, store, runs>>

vars == <<now, users, sips, wire, last, storage, exchange, store, runs,
          listing>>

----------------------------------------------------------------------------
(* Program constants *)

SIGNATURE_EXPIRY_MS == 60000

FUTURE_SKEW_MS == 5000

MIN_MONTHLY_AMOUNT == 1000

(* Bounds of the model *)

MaxSips == 1

MaxTicks == 1

StartTime == 2 * SIGNATURE_EXPIRY_MS

Wallets == {"0xAAA", "0xBBB"}

\* the address recovery yields for a signature made over another message
StrangerAddress == "0xFFF"

AssetNames == {"BTC"}

AssetIndexes == {3}

Statuses == {"active", "paused", "cancelled"}

ClockSkews == {0, FUTURE_SKEW_MS + 1}

----------------------------------------------------------------------------
(* Strings as sequences of pieces *)

Txt(s) == [s |-> s, n |-> -1]

Num(n) == [s |-> "#", n |-> n]

IsDigits(p) == p.n >= 0

EmptyString == << >>

RECURSIVE JoinParams(_)
\* Object.entries(params).map(([key, value]) => `${key}: ${value}`).join(", ")
JoinParams(params) ==
    IF params = << >> THEN << >>
    ELSE LET entry == <<Txt(params[1][1]), Txt(": ")>> \o params[1][2]
         IN  IF Len(params) = 1 THEN entry
             ELSE entry \o <<Txt(", ")>> \o JoinParams(Tail(params))

createSignatureMessageNoSpace(action, params, nonce) ==
    action \o <<Txt("\n")>> \o JoinParams(params)
           \o <<Txt("\n"), Txt("Nonce"), Txt(":"), Num(nonce)>>

\* `${action}\n${paramsStr}\nNonce: ${nonce}`, nonce = Date.now() of the caller
createSignatureMessage(action, params, nonce) ==
    action \o <<Txt("\n")>> \o JoinParams(params)
           \o <<Txt("\n"), Txt("Nonce"), Txt(": "), Num(nonce)>>

\* positions where /Nonce:\s*(\d+)/ matches
NonceMatchAt(message) ==
    { i \in 1..(Len(message) - 2) :
        /\ message[i] = Txt("Nonce")
        /\ message[i + 1] = Txt(": ")
        /\ IsDigits(message[i + 2]) }

Min(S) == CHOOSE x \in S : \A y \in S : x <= y

\* message.match(/Nonce:\s*(\d+)/): the leftmost match, -1 for null
NonceMatch(message) ==
    IF NonceMatchAt(message) = {} THEN -1
    ELSE message[Min(NonceMatchAt(message)) + 2].n

\* the number on the last line of a message built by createSignatureMessage
TrailingNonce(message) ==
    IF Len(message) >= 3 /\ Len(message) - 2 \in NonceMatchAt(message)
    THEN message[Len(message)].n ELSE -1

----------------------------------------------------------------------------
(* Signatures *)

NoSignature == [signer |-> "", msg |-> << >>]

\* a present but undecodable signature: recoverMessageAddress throws
Malformed == [signer |-> "malformed", msg |-> << >>]

Sign(key, message) == [signer |-> key, msg |-> message]

recoverMessageAddress(message, signature) ==
    IF signature.msg = message THEN signature.signer ELSE StrangerAddress

IsExpiredUnits(age) == age > SIGNATURE_EXPIRY_MS * 1000

IsExpiredGe(age) == age >= SIGNATURE_EXPIRY_MS

IsExpired(age) == age > SIGNATURE_EXPIRY_MS

IsFutureLe(age) == age <= -FUTURE_SKEW_MS

IsFuture(age) == age < -FUTURE_SKEW_MS

verifySignature(message, signature, clock) ==
    LET nonce == NonceMatch(message)
        age == clock - nonce
    IN  IF nonce = -1
          THEN [valid |-> FALSE, address |-> "", error |-> "Message missing nonce"]
        ELSE IF IsExpired(age)
          THEN [valid |-> FALSE, address |-> "", error |-> "Signature expired"]
        ELSE IF IsFuture(age)
          THEN [valid |-> FALSE, address |-> "", error |-> "Invalid nonce timestamp"]
        ELSE IF signature = Malformed
          THEN [valid |-> FALSE, address |-> "", error |-> "Signature verification failed"]
        ELSE [valid |-> TRUE, address |-> recoverMessageAddress(message, signature),
              error |-> ""]

----------------------------------------------------------------------------
(* Database service: tables users (id = position) and sips (id = position) *)

HasUser(us, walletAddress) == \E i \in 1..Len(us) : us[i] = walletAddress

UserId(us, walletAddress) == CHOOSE i \in 1..Len(us) : us[i] = walletAddress

\* upsert({wallet_address}, {onConflict: 'wallet_address'}).select().single();
\* ok = FALSE is a database error: nothing is written and null (0) is returned
getUserByWallet(us, walletAddress, ok) ==
    IF ~ok THEN [users |-> us, id |-> 0]
    ELSE IF HasUser(us, walletAddress)
      THEN [users |-> us, id |-> UserId(us, walletAddress)]
    ELSE [users |-> Append(us, walletAddress), id |-> Len(us) + 1]

SipsCheckAmountOnly(row) == row.monthly_amount_usdc >= MIN_MONTHLY_AMOUNT

\* the CHECK constraints of table sips
SipsCheck(row) ==
    /\ row.monthly_amount_usdc >= MIN_MONTHLY_AMOUNT
    /\ row.status \in Statuses

\* insert into sips; the row is returned, or null (<<>>) on error
dbCreateSIP(table, userId, assetName, assetIndex, monthlyAmountUsdc, clock, ok) ==
    LET row == [id |-> Len(table) + 1,
                user_id |-> userId,
                asset_name |-> assetName,
                asset_index |-> assetIndex,
                monthly_amount_usdc |-> monthlyAmountUsdc,
                status |-> "active",
                created_at |-> clock,
                updated_at |-> clock]
    IN  IF ok /\ SipsCheck(row)
        THEN [sips |-> Append(table, row), sip |-> <<row>>]
        ELSE [sips |-> table, sip |-> << >>]

dbUpdateSIPStatusDeleting(table, sipId, status, clock, ok) ==
    IF ~ok THEN [sips |-> table, success |-> FALSE]
    ELSE IF sipId \notin 1..Len(table) THEN [sips |-> table, success |-> TRUE]
    ELSE IF status = "cancelled"
      THEN [sips |-> SubSeq(table, 1, sipId - 1)
                       \o SubSeq(table, sipId + 1, Len(table)),
            success |-> TRUE]
    ELSE LET row == [table[sipId] EXCEPT !.status = status, !.updated_at = clock]
         IN  IF SipsCheck(row)
             THEN [sips |-> [table EXCEPT ![sipId] = row], success |-> TRUE]
             ELSE [sips |-> table, success |-> FALSE]

dbUpdateSIPStatusAll(table, sipId, status, clock, ok) ==
    IF ~ok THEN [sips |-> table, success |-> FALSE]
    ELSE IF sipId \notin 1..Len(table) THEN [sips |-> table, success |-> TRUE]
    ELSE LET rows == [i \in 1..Len(table) |->
                        [table[i] EXCEPT !.status = status, !.updated_at = clock]]
         IN  IF SipsCheck(rows[sipId])
             THEN [sips |-> rows, success |-> TRUE]
             ELSE [sips |-> table, success |-> FALSE]

\* update sips set status, updated_at where id = sipId; an update that
\* matches no row is not an error
dbUpdateSIPStatus(table, sipId, status, clock, ok) ==
    IF ~ok THEN [sips |-> table, success |-> FALSE]
    ELSE IF sipId \notin 1..Len(table) THEN [sips |-> table, success |-> TRUE]
    ELSE LET row == [table[sipId] EXCEPT !.status = status, !.updated_at = clock]
         IN  IF SipsCheck(row)
             THEN [sips |-> [table EXCEPT ![sipId] = row], success |-> TRUE]
             ELSE [sips |-> table, success |-> FALSE]

----------------------------------------------------------------------------
(* SIP service *)

BelowMinimumLe(monthlyAmountUsdc) == monthlyAmountUsdc <= MIN_MONTHLY_AMOUNT

BelowMinimum(monthlyAmountUsdc) == monthlyAmountUsdc < MIN_MONTHLY_AMOUNT

createSIP(us, table, params, clock, userOk, insertOk) ==
    IF BelowMinimum(params.monthlyAmountUsdc)
    THEN [success |-> FALSE, error |-> "Monthly investment must be at least 1000 USDC",
          users |-> us, sips |-> table]
    ELSE LET user == getUserByWallet(us, params.walletAddress, userOk)
         IN  IF user.id = 0
             THEN [success |-> FALSE, error |-> "User not found",
                   users |-> user.users, sips |-> table]
             ELSE LET created == dbCreateSIP(table, user.id, params.assetName,
                                             params.assetIndex,
                                             params.monthlyAmountUsdc, clock, insertOk)
                  IN  IF created.sip = << >>
                      THEN [success |-> FALSE, error |-> "Failed to create SIP",
                            users |-> user.users, sips |-> table]
                      ELSE [success |-> TRUE, error |-> "",
                            users |-> user.users, sips |-> created.sips]

updateSIPStatus(table, sipId, status, clock, ok) ==
    LET updated == dbUpdateSIPStatus(table, sipId, status, clock, ok)
    IN  IF ~updated.success
        THEN [success |-> FALSE, error |-> "Failed to update SIP status", sips |-> table]
        ELSE [success |-> TRUE, error |-> "", sips |-> updated.sips]

----------------------------------------------------------------------------
(* Route handlers of /api/sip *)

Undefined == -1

NoBody == [assetName |-> "", assetIndex |-> Undefined, monthlyAmountUsdc |-> 0,
           walletAddress |-> "", sipId |-> 0, status |-> "",
           message |-> EmptyString, signature |-> NoSignature]

Idle == [method |-> "none", code |-> 0, error |-> "", valid |-> FALSE,
         address |-> ""]

\* const walletAddress = verifyResult.address!
PostWalletAddressFromBody(body, verifyResult) == body.walletAddress

PostWalletAddress(body, verifyResult) == verifyResult.address

HandlePOST(us, table, body, clock, userOk, insertOk) ==
    IF \/ body.assetName = ""
       \/ body.assetIndex = Undefined
       \/ body.monthlyAmountUsdc = 0
       \/ body.message = EmptyString
       \/ body.signature = NoSignature
    THEN [code |-> 400, error |-> "Missing required fields", valid |-> FALSE,
          address |-> "", users |-> us, sips |-> table]
    ELSE LET verifyResult == verifySignature(body.message, body.signature, clock)
         IN  IF ~verifyResult.valid
             THEN [code |-> 401, error |-> verifyResult.error, valid |-> FALSE,
                   address |-> "", users |-> us, sips |-> table]
             ELSE LET result == createSIP(us, table,
                                   [walletAddress |-> PostWalletAddress(body, verifyResult),
                                    assetName |-> body.assetName,
                                    assetIndex |-> body.assetIndex,
                                    monthlyAmountUsdc |-> body.monthlyAmountUsdc],
                                   clock, userOk, insertOk)
                  IN  [code |-> IF result.success THEN 200 ELSE 500,
                       error |-> result.error, valid |-> TRUE,
                       address |-> verifyResult.address,
                       users |-> result.users, sips |-> result.sips]

HandlePATCHApplyFirst(us, table, body, clock, updateOk) ==
    IF \/ body.sipId = 0
       \/ body.status = ""
       \/ body.message = EmptyString
       \/ body.signature = NoSignature
    THEN [code |-> 400, error |-> "Missing required fields", valid |-> FALSE,
          address |-> "", users |-> us, sips |-> table]
    ELSE LET verifyResult == verifySignature(body.message, body.signature, clock)
             result == updateSIPStatus(table, body.sipId, body.status,
                                       clock, updateOk)
         IN  IF ~verifyResult.valid
             THEN [code |-> 401, error |-> verifyResult.error, valid |-> FALSE,
                   address |-> "", users |-> us, sips |-> result.sips]
             ELSE [code |-> IF result.success THEN 200 ELSE 500,
                   error |-> result.error, valid |-> TRUE,
                   address |-> verifyResult.address,
                   users |-> us, sips |-> result.sips]

HandlePATCH(us, table, body, clock, updateOk) ==
    IF \/ body.sipId = 0
       \/ body.status = ""
       \/ body.message = EmptyString
       \/ body.signature = NoSignature
    THEN [code |-> 400, error |-> "Missing required fields", valid |-> FALSE,
          address |-> "", users |-> us, sips |-> table]
    ELSE LET verifyResult == verifySignature(body.message, body.signature, clock)
         IN  IF ~verifyResult.valid
             THEN [code |-> 401, error |-> verifyResult.error, valid |-> FALSE,
                   address |-> "", users |-> us, sips |-> table]
             ELSE LET result == updateSIPStatus(table, body.sipId, body.status,
                                                clock, updateOk)
                  IN  [code |-> IF result.success THEN 200 ELSE 500,
                       error |-> result.error, valid |-> TRUE,
                       address |-> verifyResult.address,
                       users |-> us, sips |-> result.sips]

----------------------------------------------------------------------------
(* Requests *)

Amounts == {MIN_MONTHLY_AMOUNT - 1, MIN_MONTHLY_AMOUNT}

PatchStatuses == Statuses \cup {"archived"}

NoRequest == [method |-> "none", body |-> NoBody, consumed |-> FALSE]

Request(method, body) == [method |-> method, body |-> body, consumed |-> FALSE]

CreateMessage(assetName, monthlyAmountUsdc, nonce) ==
    createSignatureMessage(<<Txt("Create SIP")>>,
        << <<"asset", <<Txt(assetName)>> >>,
           <<"monthlyAmount", <<Num(monthlyAmountUsdc), Txt(" USDC")>> >> >>,
        nonce)

UpdateMessage(sipId, status, nonce) ==
    createSignatureMessage(<<Txt("Update SIP")>>,
        << <<"sipId", <<Num(sipId)>> >>, <<"status", <<Txt(status)>> >> >>,
        nonce)

\* the body client createSIP posts
CreateBody(key, assetName, assetIndex, monthlyAmountUsdc, nonce) ==
    LET message == CreateMessage(assetName, monthlyAmountUsdc, nonce)
    IN  [NoBody EXCEPT !.assetName = assetName, !.assetIndex = assetIndex,
                       !.monthlyAmountUsdc = monthlyAmountUsdc,
                       !.message = message, !.signature = Sign(key, message)]

\* the body client updateSIPStatus sends
UpdateBody(key, sipId, status, nonce) ==
    LET message == UpdateMessage(sipId, status, nonce)
    IN  [NoBody EXCEPT !.sipId = sipId, !.status = status,
                       !.message = message, !.signature = Sign(key, message)]

\* bodies another HTTP client can send with a create message signed by key:
\* an amount that differs from the signed text, an extra walletAddress field
TamperedPostBodies(key, nonce) ==
    LET b == CreateBody(key, "BTC", 3, MIN_MONTHLY_AMOUNT, nonce)
        low == CreateBody(key, "BTC", 3, MIN_MONTHLY_AMOUNT - 1, nonce)
    IN  { [b EXCEPT !.monthlyAmountUsdc = MIN_MONTHLY_AMOUNT - 1],
          [low EXCEPT !.monthlyAmountUsdc = MIN_MONTHLY_AMOUNT] }
        \cup { [b EXCEPT !.walletAddress = w] : w \in Wallets \ {key} }

\* an undecodable signature, a message without a nonce, a field left out
BrokenPostBodies(nonce) ==
    LET b == CreateBody("0xAAA", "BTC", 3, MIN_MONTHLY_AMOUNT, nonce)
    IN  { [b EXCEPT !.signature = Malformed],
          [b EXCEPT !.message = <<Txt("Create SIP")>>,
                    !.signature = Sign("0xAAA", <<Txt("Create SIP")>>)],
          [b EXCEPT !.assetName = ""],
          [b EXCEPT !.assetIndex = Undefined],
          [b EXCEPT !.monthlyAmountUsdc = 0],
          [b EXCEPT !.message = EmptyString],
          [b EXCEPT !.signature = NoSignature] }

\* a status that differs from the signed text, a signature the key made over
\* another text
TamperedPatchBodies(key, sipId, nonce) ==
    LET b == UpdateBody(key, sipId, "paused", nonce)
    IN  { [b EXCEPT !.status = "active"],
          [b EXCEPT !.status = "cancelled"],
          [b EXCEPT !.signature = Sign(key, <<Txt("Sign in")>>)] }

BrokenPatchBodies(nonce) ==
    LET b == UpdateBody("0xAAA", 1, "paused", nonce)
    IN  { [b EXCEPT !.signature = Malformed],
          [b EXCEPT !.message = <<Txt("Update SIP")>>,
                    !.signature = Sign("0xAAA", <<Txt("Update SIP")>>)],
          [b EXCEPT !.sipId = 0],
          [b EXCEPT !.status = ""],
          [b EXCEPT !.message = EmptyString],
          [b EXCEPT !.signature = NoSignature] }

DbFaults == {"none", "users", "sips"}

----------------------------------------------------------------------------
(* The browser side: agent key storage, the client store, the exchange.    *)
(* A browser context (a tab) has its own client store and runs the agent   *)
(* bootstrap through one of the two useInitializeAgent hooks: the React    *)
(* Query hook that calls initializeAgent, or the effect hook that carries  *)
(* the same steps inline.  localStorage is shared by the tabs of the       *)
(* origin, the exchange by everybody.                                      *)

RETRY == 3

RETRY_BASE_MS == 1000

RETRY_CAP_MS == 30000

MaxReruns == 2

Tabs == {"t1", "t2"}

Hooks == {"query", "effect"}

\* the same account, written in lower case
LowerCase(address) ==
    CASE address = "0xAAA" -> "0xaaa"
      [] address = "0xBBB" -> "0xbbb"
      [] OTHER -> address

StorageAddresses == Wallets \cup { LowerCase(a) : a \in Wallets }

NoKey == 0

\* localStorage.getItem(`agentPrivateKey-${userAddress}`): null is NoKey
getAgentPrivateKey(st, userAddress) == st[userAddress]

\* localStorage.setItem(`agentPrivateKey-${userAddress}`, privateKey)
saveAgentPrivateKey(st, userAddress, privateKey) ==
    [st EXCEPT ![userAddress] = privateKey]

Max(S) == CHOOSE x \in S : \A y \in S : y <= x

\* a new random key: one that nobody holds yet
generateAgentWallet(taken) == Max(taken \cup {NoKey}) + 1

\* if (existingKey) return existingKey
KeepsNever(existingKey) == FALSE

KeepsExisting(existingKey) == existingKey # NoKey

\* privateKeyToAccount: the address that belongs to the key
createAgentAccount(privateKey) == [address |-> <<"0x", privateKey>>]

\* infoClient.extraAgents({user}): the answer of the exchange, when it answers
extraAgents(ex, userAddress) ==
    { d.address : d \in { e \in ex : e.user = userAddress } }

NoResponse == [kind |-> "none", agents |-> {}]

\* what a query of the exchange can give: the list, no data, an exception
Responses(ex, userAddress) ==
    { [kind |-> "list", agents |-> extraAgents(ex, userAddress)],
      [kind |-> "null", agents |-> {}],
      [kind |-> "throw", agents |-> {}] }

checkAgentApprovalTrusting(infoClient, resp, agentAddress) ==
    IF ~infoClient THEN FALSE
    ELSE IF resp.kind = "throw" THEN TRUE
    ELSE IF resp.kind = "null" THEN FALSE
    ELSE \E agent \in resp.agents : agent = agentAddress

checkAgentApproval(infoClient, resp, agentAddress) ==
    IF ~infoClient THEN FALSE
    ELSE IF resp.kind = "throw" THEN FALSE
    ELSE IF resp.kind = "null" THEN FALSE
    ELSE \E agent \in resp.agents : agent = agentAddress

approveAgentIfNeededAlways(exchangeClient, isApproved) ==
    IF ~exchangeClient THEN "throw"
    ELSE "submit"

\* agent-service approveAgentIfNeeded: what it does with the client it is
\* handed and the result of the check
approveAgentIfNeeded(exchangeClient, isApproved) ==
    IF isApproved THEN "skip"
    ELSE IF ~exchangeClient THEN "throw"
    ELSE "submit"

\* step 5 of the effect hook, with the store's client of that moment
approveInline(currentExchangeClient, isApproved) ==
    IF isApproved THEN "skip"
    ELSE IF currentExchangeClient THEN "submit"
    ELSE "skip"

\* exchangeClient.approveAgent caught: a failure is logged and dropped
approveFailureRethrown(ok) == IF ok THEN "approved" ELSE "throw"

approveFailure(ok) == IF ok THEN "approved" ELSE "warned"

RECURSIVE Pow2(_)

Pow2(n) == IF n = 0 THEN 1 ELSE 2 * Pow2(n - 1)

\* retryDelay: (attemptIndex) => Math.min(1000 * 2 ** attemptIndex, 30000)
retryDelay(attemptIndex) == Min({RETRY_BASE_MS * Pow2(attemptIndex), RETRY_CAP_MS})

\* the store of a tab once the module is loaded: init() has set infoClient
StoreLoaded ==
    [infoClient |-> TRUE, exchangeClient |-> FALSE, agentClient |-> NoKey]

\* a tab that has not rendered the hook yet; connected is the address
\* useAccount returns, cached the addresses whose query holds a result
RunIdle ==
    [hook |-> "none", pc |-> "idle", address |-> "",
     connected |-> "", cached |-> {},
     infoClient |-> FALSE, exchangeClient |-> FALSE, agentClient |-> FALSE,
     key |-> NoKey, response |-> "none", isApproved |-> FALSE,
     checked |-> FALSE, approveDone |-> FALSE, submitted |-> FALSE,
     approval |-> "none",
     attempt |-> 0, waited |-> 0, initialized |-> FALSE]

AgentAtRest ==
    /\ storage = [a \in StorageAddresses |-> NoKey]
    /\ exchange = {}
    /\ store = [t \in Tabs |-> StoreLoaded]
    /\ runs = [t \in Tabs |-> RunIdle]

NoListing == [code |-> 0, error |-> "", walletAddress |-> "", sips |-> << >>]

----------------------------------------------------------------------------
(* Actions *)

Init ==
    /\ now = StartTime
    /\ users = << >>
    /\ sips = << >>
    /\ wire = NoRequest
    /\ last = Idle
    /\ AgentAtRest
    /\ listing = NoListing

Ticks == (now - StartTime) \div (SIGNATURE_EXPIRY_MS + 1)

\* the verifier's clock advances past the freshness window
Tick ==
    /\ Ticks < MaxTicks
    /\ now' = now + SIGNATURE_EXPIRY_MS + 1
    /\ last' = Idle
    /\ UNCHANGED <<users, sips, wire, listing>>
    /\ UNCHANGED agentVars

\* a request leaves a client; it replaces the one in flight
Send(method, body) ==
    /\ wire' = Request(method, body)
    /\ last' = Idle
    /\ UNCHANGED <<now, users, sips, listing>>
    /\ UNCHANGED agentVars

\* client createSIP: build the message, have the wallet sign it, send it
ClientCreateSIP ==
    \E key \in Wallets, a \in AssetNames, i \in AssetIndexes, m \in Amounts,
       skew \in ClockSkews :
        Send("POST", CreateBody(key, a, i, m, now + skew))

\* client updateSIPStatus
ClientUpdateSIPStatus ==
    \E key \in Wallets, id \in 1..MaxSips, st \in PatchStatuses :
        Send("PATCH", UpdateBody(key, id, st, now))

\* any other HTTP client
OtherClientPost ==
    \/ \E key \in Wallets :
          \E body \in TamperedPostBodies(key, now) : Send("POST", body)
    \/ \E body \in BrokenPostBodies(now) : Send("POST", body)

OtherClientPatch ==
    \/ \E key \in Wallets, id \in 1..MaxSips :
          \E body \in TamperedPatchBodies(key, id, now) : Send("PATCH", body)
    \/ \E body \in BrokenPatchBodies(now) : Send("PATCH", body)

\* the response goes out; the request in flight is marked once it was accepted
Respond(r) ==
    /\ users' = r.users
    /\ sips' = r.sips
    /\ last' = [method |-> wire.method, code |-> r.code, error |-> r.error,
                valid |-> r.valid, address |-> r.address]
    /\ wire' = [wire EXCEPT !.consumed = @ \/ r.code = 200]
    /\ UNCHANGED <<now, listing>>
    /\ UNCHANGED agentVars

\* the server handles the request in flight (again, when it is replayed)
POST ==
    \E fault \in DbFaults :
        LET r == HandlePOST(users, sips, wire.body, now,
                            fault # "users", fault # "sips")
        IN  /\ wire.method = "POST"
            /\ Len(r.sips) <= MaxSips
            /\ Respond(r)

PATCH ==
    \E fault \in DbFaults \ {"users"} :
        /\ wire.method = "PATCH"
        /\ Respond(HandlePATCH(users, sips, wire.body, now, fault # "sips"))

Next ==
    \/ Tick
    \/ ClientCreateSIP
    \/ ClientUpdateSIPStatus
    \/ OtherClientPost
    \/ OtherClientPatch
    \/ POST
    \/ PATCH

Spec == Init /\ [][Next]_vars

----------------------------------------------------------------------------
(* The signature codec on its own: createSignatureMessage, the wallet's    *)
(* signature and verifySignature, for any caller's action and parameters   *)

CodecActions == { <<Txt("Create SIP")>>, <<Txt("Transfer")>> }

CodecParams ==
    { << >>,
      << <<"asset", <<Txt("BTC")>> >>,
         <<"monthlyAmount", <<Num(MIN_MONTHLY_AMOUNT), Txt(" USDC")>> >> >>,
      << <<"sipId", <<Num(1)>> >>, <<"status", <<Txt("paused")>> >> >>,
      << <<"memo", <<Txt("Nonce"), Txt(": "), Num(7)>> >> >> }

\* how far the signer's clock was from the verifier's when the nonce was taken
NonceOffsets ==
    { -(SIGNATURE_EXPIRY_MS + 1), -SIGNATURE_EXPIRY_MS, -1, 0,
      FUTURE_SKEW_MS - 1, FUTURE_SKEW_MS, FUTURE_SKEW_MS + 1 }

CodecInit ==
    /\ now = StartTime
    /\ users = << >>
    /\ sips = << >>
    /\ last = Idle
    /\ AgentAtRest
    /\ listing = NoListing
    /\ \E key \in Wallets, action \in CodecActions, params \in CodecParams,
          offset \in NonceOffsets :
          LET message == createSignatureMessage(action, params, now + offset)
          IN  wire = Request("VERIFY",
                        [NoBody EXCEPT !.message = message,
                                       !.signature = Sign(key, message)])

Verify ==
    LET r == verifySignature(wire.body.message, wire.body.signature, now)
    IN  /\ wire.method = "VERIFY"
        /\ ~wire.consumed
        /\ last' = [method |-> "VERIFY", code |-> 0, error |-> r.error,
                    valid |-> r.valid, address |-> r.address]
        /\ wire' = [wire EXCEPT !.consumed = TRUE]
        /\ UNCHANGED <<now, users, sips, listing>>
        /\ UNCHANGED agentVars

CodecNext == Verify

SpecCodec == CodecInit /\ [][CodecNext]_vars

----------------------------------------------------------------------------
(* The agent bootstrap: initializeAgent behind the React Query hook, and   *)
(* the effect hook.  A step is what runs between two awaits; the read and  *)
(* the write of the key are steps of their own because another tab of the  *)
(* origin can use localStorage between them.                               *)

\* the order of the steps in initializeAgent and in the effect hook
NextStepUnchecked(step) ==
    CASE step = "getKey" -> "initExchange"
      [] step = "saveKey" -> "initExchange"
      [] step = "initExchange" -> "approve"
      [] step = "check" -> "register"
      [] step = "approve" -> "check"
      [] step = "register" -> "done"

NextStep(step) ==
    CASE step = "getKey" -> "initExchange"
      [] step = "saveKey" -> "initExchange"
      [] step = "initExchange" -> "check"
      [] step = "check" -> "approve"
      [] step = "approve" -> "register"
      [] step = "register" -> "done"

KeysHeld ==
    { storage[a] : a \in StorageAddresses } \cup { runs[t].key : t \in Tabs }

\* the run throws: React Query retries up to RETRY times, the effect hook
\* sets error and isLoading and its effect runs again
Failed(r) ==
    IF r.hook = "query"
      THEN [r EXCEPT !.pc = IF r.attempt < RETRY THEN "backoff" ELSE "error"]
      ELSE [r EXCEPT !.pc = "failed"]

\* a run starts with the clients the hook read from the store when it rendered
Started(t, hook, address, exchangeClient, attempt, waited) ==
    [RunIdle EXCEPT !.hook = hook, !.pc = "getKey", !.address = address,
                    !.connected = address, !.cached = runs[t].cached,
                    !.infoClient = store[t].infoClient,
                    !.exchangeClient = exchangeClient,
                    !.agentClient = store[t].agentClient # NoKey,
                    !.attempt = attempt, !.waited = waited]

\* the hook renders with a connected address
Begin ==
    \E t \in Tabs, hook \in Hooks, address \in Wallets :
        /\ runs[t].pc = "idle"
        /\ runs' = [runs EXCEPT ![t] =
                      Started(t, hook, address, store[t].exchangeClient, 0, 0)]
        /\ UNCHANGED <<serverVars, listing, storage, exchange, store>>

\* getOrCreateAgentPrivateKey up to the read of localStorage
ReadKey ==
    \E t \in Tabs :
        LET r == runs[t]
            existingKey == getAgentPrivateKey(storage, r.address)
        IN  /\ r.pc = "getKey"
            /\ runs' = [runs EXCEPT ![t] =
                  IF KeepsExisting(existingKey)
                    THEN [r EXCEPT !.key = existingKey,
                                   !.pc = NextStep("getKey")]
                    ELSE [r EXCEPT !.key = generateAgentWallet(KeysHeld),
                                   !.pc = "saveKey"]]
            /\ UNCHANGED <<serverVars, listing, storage, exchange, store>>

\* getOrCreateAgentPrivateKey from saveAgentPrivateKey on
WriteKey ==
    \E t \in Tabs :
        LET r == runs[t]
        IN  /\ r.pc = "saveKey"
            /\ storage' = saveAgentPrivateKey(storage, r.address, r.key)
            /\ runs' = [runs EXCEPT ![t].pc = NextStep("saveKey")]
            /\ UNCHANGED <<serverVars, listing, exchange, store>>

\* if (!exchangeClient) await initExchangeClient(): the wallet may refuse
InitExchange ==
    \E t \in Tabs, granted \in BOOLEAN :
        LET r == runs[t]
        IN  /\ r.pc = "initExchange"
            /\ IF r.exchangeClient
                 THEN /\ granted
                      /\ runs' = [runs EXCEPT ![t].pc = NextStep("initExchange")]
                      /\ UNCHANGED store
                 ELSE IF granted
                 THEN /\ store' = [store EXCEPT ![t].exchangeClient = TRUE]
                      /\ runs' = [runs EXCEPT ![t].pc = NextStep("initExchange")]
                 ELSE /\ runs' = [runs EXCEPT ![t] = Failed(r)]
                      /\ UNCHANGED store
            /\ UNCHANGED <<serverVars, listing, storage, exchange>>

\* checkAgentApproval (step 4 of the effect hook)
Check ==
    \E t \in Tabs :
        LET r == runs[t]
        IN  /\ r.pc = "check"
            /\ \E resp \in IF r.infoClient
                             THEN Responses(exchange, r.address)
                             ELSE {NoResponse} :
                  runs' = [runs EXCEPT ![t] =
                     [r EXCEPT !.isApproved =
                                  checkAgentApproval(r.infoClient, resp,
                                      createAgentAccount(r.key).address),
                               !.response = resp.kind,
                               !.checked = TRUE,
                               !.pc = NextStep("check")]]
            /\ UNCHANGED <<serverVars, listing, storage, exchange, store>>

\* approveAgentIfNeeded with the client initializeAgent was called with
\* (step 5 of the effect hook with the client the store holds now)
Approve ==
    \E t \in Tabs, ok \in BOOLEAN :
        LET r == runs[t]
            decision == IF r.hook = "query"
                          THEN approveAgentIfNeeded(r.exchangeClient, r.isApproved)
                          ELSE approveInline(store[t].exchangeClient, r.isApproved)
            delegate == [user |-> r.address,
                         address |-> createAgentAccount(r.key).address]
        IN  /\ r.pc = "approve"
            /\ CASE decision = "skip" ->
                      /\ ok
                      /\ runs' = [runs EXCEPT ![t] =
                            [r EXCEPT !.approveDone = TRUE,
                                      !.pc = NextStep("approve")]]
                      /\ UNCHANGED exchange
                 [] decision = "throw" ->
                      /\ ok
                      /\ runs' = [runs EXCEPT ![t] = Failed(r)]
                      /\ UNCHANGED exchange
                 [] decision = "submit" ->
                      /\ exchange' = IF ok THEN exchange \cup {delegate}
                                     ELSE exchange
                      /\ runs' = [runs EXCEPT ![t] =
                            IF approveFailure(ok) = "throw"
                              THEN Failed([r EXCEPT !.submitted = TRUE,
                                                    !.approval = "throw"])
                              ELSE [r EXCEPT !.submitted = TRUE,
                                             !.approval = approveFailure(ok),
                                             !.approveDone = TRUE,
                                             !.pc = NextStep("approve")]]
            /\ UNCHANGED <<serverVars, listing, storage, store>>

\* initAgentClient(agentAccount) and the result; the effect hook registers
\* only when it rendered without an agent client
Register ==
    \E t \in Tabs :
        LET r == runs[t]
        IN  /\ r.pc = "register"
            /\ store' = IF r.hook = "query" \/ ~r.agentClient
                          THEN [store EXCEPT ![t].agentClient = r.key]
                          ELSE store
            /\ runs' = [runs EXCEPT ![t] =
                  [r EXCEPT !.initialized = TRUE,
                            !.cached = IF r.hook = "query"
                                         THEN @ \cup {r.address} ELSE @,
                            !.pc = NextStep("register")]]
            /\ UNCHANGED <<serverVars, listing, storage, exchange>>

\* React Query runs the query function again after retryDelay(failureCount);
\* the function it runs is the one of the first render or of a later one
Retry ==
    \E t \in Tabs :
        LET r == runs[t]
        IN  /\ r.pc = "backoff"
            /\ \E exchangeClient \in {r.exchangeClient, store[t].exchangeClient} :
                  runs' = [runs EXCEPT ![t] =
                      Started(t, r.hook, r.address, exchangeClient,
                              r.attempt + 1, retryDelay(r.attempt))]
            /\ UNCHANGED <<serverVars, listing, storage, exchange, store>>

\* the effect of the effect hook runs again when isLoading goes back to false
Rerun ==
    \E t \in Tabs :
        LET r == runs[t]
        IN  /\ r.pc = "failed"
            /\ r.attempt < MaxReruns
            /\ runs' = [runs EXCEPT ![t] =
                  Started(t, r.hook, r.address, store[t].exchangeClient,
                          r.attempt + 1, 0)]
            /\ UNCHANGED <<serverVars, listing, storage, exchange, store>>

AgentNext ==
    \/ Begin
    \/ ReadKey
    \/ WriteKey
    \/ InitExchange
    \/ Check
    \/ Approve
    \/ Register
    \/ Retry
    \/ Rerun

SpecAgent == Init /\ [][AgentNext]_vars

----------------------------------------------------------------------------
(* checkAgentApproval on its own: any delegate list, any agent, with and   *)
(* without an info client                                                  *)

AgentKeys == {1, 2}

Delegates ==
    { [user |-> "0xAAA", address |-> createAgentAccount(k).address] :
        k \in AgentKeys }
    \cup { [user |-> "0xBBB", address |-> createAgentAccount(1).address] }

ApprovalInit ==
    /\ now = StartTime
    /\ users = << >>
    /\ sips = << >>
    /\ wire = NoRequest
    /\ last = Idle
    /\ listing = NoListing
    /\ storage = [a \in StorageAddresses |-> NoKey]
    /\ store = [t \in Tabs |-> StoreLoaded]
    /\ exchange \in SUBSET Delegates
    /\ \E hook \in Hooks, key \in AgentKeys, infoClient \in BOOLEAN :
          runs = [t \in Tabs |->
                    IF t = "t1"
                      THEN [RunIdle EXCEPT !.hook = hook, !.pc = "check",
                                           !.address = "0xAAA",
                                           !.infoClient = infoClient,
                                           !.key = key]
                      ELSE RunIdle]

ApprovalNext == Check

SpecApproval == ApprovalInit /\ [][ApprovalNext]_vars

----------------------------------------------------------------------------
(* Properties *)

Handled == last.method \in {"POST", "PATCH"}

\* the step is the server handling the request in flight
Handles == last'.method \in {"POST", "PATCH"}

Owner(i) == users[sips[i].user_id]

\* the age of the nonce verifySignature reads in the request in flight
Age == now - NonceMatch(wire.body.message)

\* C1: a plan whose status is cancelled keeps that status in every later
\* step, whatever request is handled.
C1_CancelledIsTerminal ==
    [][\A i \in 1..Len(sips) :
          sips[i].status = "cancelled" => sips'[i].status = "cancelled"]_vars

\* C2: a handled request changes a plan only when the address recovered from
\* its signature is the wallet address of the plan's owner.
C2_OnlyOwnerChanges ==
    [][\A i \in 1..Len(sips) :
          sips'[i] # sips[i] => last'.valid /\ last'.address = Owner(i)]_vars

\* C3 as stated: a pair the server has accepted before is not accepted again
\* and changes no plan.
C3_ConsumedOnce ==
    [][(Handles /\ wire.consumed) => (last'.code # 200 /\ sips' = sips)]_vars

\* C3 as amended: a pair the server has accepted before, submitted again when
\* its nonce is more than SIGNATURE_EXPIRY_MS old, is answered 401 and changes
\* neither table.
C3_StaleReplayRejected ==
    [][(Handles /\ wire.consumed /\ Age > SIGNATURE_EXPIRY_MS)
          => (last'.code = 401 /\ sips' = sips /\ users' = users)]_vars

C3_Witness ==
    /\ Handled
    /\ wire.consumed
    /\ Age > SIGNATURE_EXPIRY_MS
    /\ last.code = 401

\* the address the signature of the request in flight recovers to
Recovered ==
    IF wire.body.signature.msg = wire.body.message
    THEN wire.body.signature.signer ELSE StrangerAddress

\* C4: a successful POST adds one plan, owned by the user record whose wallet
\* address is the address recovered from the request's signature.
C4_OwnerIsSigner ==
    [][(Handles /\ last'.method = "POST" /\ last'.code = 200)
          => /\ Len(sips') = Len(sips) + 1
             /\ SubSeq(sips', 1, Len(sips)) = sips
             /\ users'[sips'[Len(sips')].user_id] = Recovered
             /\ last'.address = Recovered]_vars

\* a plan was created from a body that names another wallet address
C4_Witness ==
    /\ last.method = "POST"
    /\ last.code = 200
    /\ wire.body.walletAddress \in Wallets \ {last.address}
    /\ Owner(Len(sips)) = last.address

\* C5: verifySignature answers "Signature expired" exactly when the nonce it
\* reads is more than 60000 ms older than the verifier's clock.
C5_ExpiredExactly ==
    last.method = "VERIFY" =>
        (last.error = "Signature expired"
            <=> (NonceMatch(wire.body.message) # -1 /\ Age > 60000))

\* a nonce exactly 60000 ms old passes
C5_Witness ==
    /\ last.method = "VERIFY"
    /\ Age = 60000
    /\ last.valid

\* C6: verifySignature answers "Invalid nonce timestamp" exactly when the
\* nonce it reads is more than 5000 ms ahead of the verifier's clock (and the
\* message is not expired).
C6_FutureExactly ==
    last.method = "VERIFY" =>
        (last.error = "Invalid nonce timestamp"
            <=> (NonceMatch(wire.body.message) # -1 /\ Age < -5000))

\* a nonce exactly 5000 ms ahead passes
C6_Witness ==
    /\ last.method = "VERIFY"
    /\ Age = -5000
    /\ last.valid

\* C7: a message built by createSignatureMessage and signed by a key, verified
\* while the nonce it was built with is fresh, is valid and recovers the
\* key's address.
C7_RoundTrip ==
    (/\ last.method = "VERIFY"
     /\ now - TrailingNonce(wire.body.message) <= SIGNATURE_EXPIRY_MS
     /\ now - TrailingNonce(wire.body.message) >= -FUTURE_SKEW_MS)
        => (last.valid /\ last.address = wire.body.signature.signer)

\* C8: no persisted plan has a monthly amount below 1000; a create request
\* with an amount below 1000 is refused and writes nothing; a verified one
\* with amount 1000 is never refused for its amount.
C8_MinimumAmount ==
    /\ [](\A i \in 1..Len(sips) : sips[i].monthly_amount_usdc >= 1000)
    /\ [][(Handles /\ last'.method = "POST")
            => /\ wire.body.monthlyAmountUsdc < 1000
                    => (last'.code # 200 /\ sips' = sips /\ users' = users)
               /\ (last'.valid /\ wire.body.monthlyAmountUsdc = 1000)
                    => last'.error \in {"", "User not found", "Failed to create SIP"}
               /\ (last'.error = "") = (last'.code = 200)]_vars

\* a plan of exactly 1000 was created
C8_Witness ==
    /\ last.method = "POST"
    /\ last.code = 200
    /\ wire.body.monthlyAmountUsdc = 1000
    /\ sips[Len(sips)].monthly_amount_usdc = 1000

\* C9: a verified create request with an amount below the minimum is answered
\* with status 400.
C9_BelowMinimumIs400 ==
    (/\ last.method = "POST"
     /\ last.valid
     /\ wire.body.monthlyAmountUsdc < MIN_MONTHLY_AMOUNT) => last.code = 400

\* C10: a verified status-change request naming a plan id that is not in the
\* plan store is not answered with success.
C10_UnknownPlanIsError ==
    (/\ last.method = "PATCH"
     /\ last.valid
     /\ wire.body.sipId \notin 1..Len(sips)) => last.code # 200

----------------------------------------------------------------------------
(* Listing plans: GET /api/sip?walletAddress=...                           *)

MaxPlans == 2

ListAddresses == Wallets \cup {LowerCase("0xAAA")}

\* the rows of a user, in an order the database may return them for
\* order('created_at', {ascending: false}): rows of one instant in any order
NewestFirst(table, userId) ==
    LET rows == { i \in 1..Len(table) : table[i].user_id = userId }
        n == Cardinality(rows)
    IN  { [k \in 1..n |-> table[pick[k]]] :
            pick \in { f \in [1..n -> rows] :
                         /\ \A j, k \in 1..n : j # k => f[j] # f[k]
                         /\ \A j, k \in 1..n :
                               j < k => table[f[j]].created_at
                                          >= table[f[k]].created_at } }

\* db getUserSIPs: a database error is logged and gives the empty list
dbGetUserSIPs(table, userId, ok) ==
    IF ~ok THEN { << >> } ELSE NewestFirst(table, userId)

\* service getUserSIPs: the answers it may give, with the users table after
getUserSIPs(us, table, walletAddress, userOk, listOk) ==
    LET user == getUserByWallet(us, walletAddress, userOk)
    IN  IF user.id = 0
        THEN { [users |-> user.users, sips |-> << >>] }
        ELSE { [users |-> user.users, sips |-> rows] :
                 rows \in dbGetUserSIPs(table, user.id, listOk) }

HandleGET(us, table, walletAddress, userOk, listOk) ==
    IF walletAddress = ""
    THEN { [code |-> 400, error |-> "Wallet address required",
            users |-> us, sips |-> << >>] }
    ELSE { [code |-> 200, error |-> "", users |-> r.users, sips |-> r.sips] :
             r \in getUserSIPs(us, table, walletAddress, userOk, listOk) }

\* a verified create request reaches the plan service
CreatePlan ==
    \E walletAddress \in Wallets, a \in AssetNames, i \in AssetIndexes :
        LET r == createSIP(users, sips,
                           [walletAddress |-> walletAddress, assetName |-> a,
                            assetIndex |-> i,
                            monthlyAmountUsdc |-> MIN_MONTHLY_AMOUNT],
                           now, TRUE, TRUE)
        IN  /\ Len(sips) < MaxPlans
            /\ users' = r.users
            /\ sips' = r.sips
            /\ listing' = NoListing
            /\ UNCHANGED <<now, wire, last>>
            /\ UNCHANGED agentVars

GET ==
    \E walletAddress \in ListAddresses \cup {""}, fault \in DbFaults :
        \E r \in HandleGET(users, sips, walletAddress,
                            fault # "users", fault # "sips") :
            /\ users' = r.users
            /\ listing' = [code |-> r.code, error |-> r.error,
                           walletAddress |-> walletAddress, sips |-> r.sips]
            /\ UNCHANGED <<now, sips, wire, last>>
            /\ UNCHANGED agentVars

ListNext ==
    \/ Tick
    \/ CreatePlan
    \/ GET

SpecList == Init /\ [][ListNext]_vars

----------------------------------------------------------------------------
(* Properties of the agent bootstrap *)

\* the run of tab t has thrown
Thrown(t) == runs[t].pc \in {"backoff", "error", "failed"}

\* the delegate entry the run of tab t asks the exchange for
Delegate(t) ==
    [user |-> runs[t].address,
     address |-> createAgentAccount(runs[t].key).address]

\* the step submits the approval transaction of tab t
Submits(t) == ~runs[t].submitted /\ runs'[t].submitted

\* C11: a run of initializeAgent that starts without an exchange client for
\* an agent that is not approved initializes the exchange client, submits
\* the approval through it, registers the agent client and returns
\* initialized = true: once such a run has initialized the client and found
\* the agent not approved, it does not throw
C11_ColdStartApproves ==
    \A t \in Tabs :
        ( /\ runs[t].hook = "query"
          /\ ~runs[t].exchangeClient
          /\ store[t].exchangeClient
          /\ runs[t].checked
          /\ ~runs[t].isApproved )
        => ~Thrown(t)

\* C12: a call of getOrCreateAgentPrivateKey that finds a key in storage
\* returns that key and writes nothing, in a first run, a retry or another
\* tab; and while no call is between its read and its write, a stored key
\* is never replaced
C12_KeyIsKept ==
    [][ /\ \A t \in Tabs :
              ( /\ runs[t].pc = "getKey"
                /\ runs'[t].pc # "getKey"
                /\ storage[runs[t].address] # NoKey )
              => /\ runs'[t].key = storage[runs[t].address]
                 /\ runs'[t].pc # "saveKey"
                 /\ storage' = storage
        /\ \A a \in StorageAddresses :
              ( /\ storage[a] # NoKey
                /\ ~\E t \in Tabs : runs[t].pc = "saveKey" /\ runs[t].address = a )
              => storage'[a] = storage[a] ]_vars

\* a retry in one tab and a run in another tab ended with the stored key
C12_Witness ==
    \E t \in Tabs, u \in Tabs :
        /\ t # u
        /\ runs[t].pc = "done" /\ runs[u].pc = "done"
        /\ runs[t].attempt > 0
        /\ runs[t].address = runs[u].address
        /\ runs[t].key = storage[runs[t].address]
        /\ runs[u].key = storage[runs[t].address]

\* C13: when get-or-create calls for one address interleave, then once no
\* call is between its read and its write every caller holds the key that
\* is stored
C13_CallersAgree ==
    \A t \in Tabs :
        ( /\ runs[t].key # NoKey
          /\ ~\E u \in Tabs : /\ runs[u].pc = "saveKey"
                              /\ runs[u].address = runs[t].address )
        => runs[t].key = storage[runs[t].address]

\* C14 as stated: an approval is submitted only after the check of the same
\* run returned not-approved, so an agent that is a delegate on the exchange
\* is never approved again
C14_NeverReapproved ==
    [][ \A t \in Tabs :
            Submits(t) => /\ runs[t].checked
                          /\ ~runs[t].isApproved
                          /\ Delegate(t) \notin exchange ]_vars

\* C14: an approval is submitted only after the check of the same run
\* returned not-approved; a run whose check found the agent among the
\* delegates submits none (an agent the check did not find, because the
\* query failed or returned no data, can be approved again)
C14_OnlyAfterNegativeCheck ==
    [][ \A t \in Tabs :
            /\ Submits(t) => runs[t].checked /\ ~runs[t].isApproved
            /\ (runs[t].pc = "approve" /\ runs[t].isApproved)
                  => /\ ~runs'[t].submitted
                     /\ exchange' = exchange ]_vars

\* a run found its agent approved and went on without submitting
C14_Witness ==
    \E t \in Tabs :
        /\ runs[t].isApproved
        /\ runs[t].approveDone
        /\ ~runs[t].submitted

\* C15: in every run the key is stored before the approval check is
\* issued, the check has completed before an approval is submitted, and
\* the agent client is registered only after approve-if-needed finished
C15_StepsInOrder ==
    [][ \A t \in Tabs :
            /\ (~runs[t].checked /\ runs'[t].checked)
                  => storage[runs[t].address] # NoKey
            /\ Submits(t) => runs[t].checked
            /\ (~runs[t].initialized /\ runs'[t].initialized)
                  => runs[t].approveDone ]_vars

\* a run went through all steps, approval included
C15_Witness ==
    \E t \in Tabs :
        /\ runs[t].pc = "done"
        /\ runs[t].submitted
        /\ runs[t].initialized
        /\ store[t].agentClient = runs[t].key

\* C16: checkAgentApproval never raises; it returns true exactly when the
\* exchange answered with a delegate list that contains the agent address,
\* and false without an info client, without data, or when the query throws
C16_ApprovedIffListed ==
    \A t \in Tabs :
        runs[t].checked
        => /\ runs[t].pc = "approve"
           /\ runs[t].isApproved <=>
                 ( /\ runs[t].infoClient
                   /\ runs[t].response = "list"
                   /\ Delegate(t) \in exchange )

\* the query threw for an agent that is a delegate: the answer is false
C16_Witness ==
    \E t \in Tabs :
        /\ runs[t].checked
        /\ runs[t].response = "throw"
        /\ Delegate(t) \in exchange
        /\ ~runs[t].isApproved

\* C17: a failed approveAgent call is not propagated: the run goes on to
\* register the agent client and ends with initialized = true
C17_ApprovalFailureIsNotFatal ==
    \A t \in Tabs :
        runs[t].approval # "none"
        => /\ runs[t].approval \in {"approved", "warned"}
           /\ runs[t].pc \in {"register", "done"}
           /\ runs[t].pc = "done"
                 => /\ runs[t].initialized
                    /\ store[t].agentClient = runs[t].key

\* initializeAgent returned after its approveAgent call had failed
C17_Witness ==
    \E t \in Tabs :
        /\ runs[t].hook = "query"
        /\ runs[t].approval = "warned"
        /\ runs[t].pc = "done"
        /\ runs[t].initialized

\* C18: an address and the same address in another letter case give the
\* same agent key and the same user record
C18_CaseInsensitive ==
    \A a \in Wallets :
        /\ getAgentPrivateKey(storage, a)
              = getAgentPrivateKey(storage, LowerCase(a))
        /\ HasUser(users, a) <=> HasUser(users, LowerCase(a))

\* the plans of the table whose owner has exactly this wallet address
PlansOf(walletAddress) ==
    { i \in 1..Len(sips) : users[sips[i].user_id] = walletAddress }

\* C19: listing the plans of a wallet address answers 200 with exactly the
\* plans owned by the user of that address, each once, newest first by
\* creation time; the list is empty when there is no plan or no user
C19_ListsOwnPlans ==
    listing.walletAddress # ""
    => /\ listing.code = 200
       /\ { listing.sips[k].id : k \in 1..Len(listing.sips) }
             = { sips[i].id : i \in PlansOf(listing.walletAddress) }
       /\ Len(listing.sips) = Cardinality(PlansOf(listing.walletAddress))
       /\ \A j, k \in 1..Len(listing.sips) :
             j < k => listing.sips[j].created_at >= listing.sips[k].created_at

\* C20: every retry of the bootstrap starts after a wait of
\* min(1000 * 2^n, 30000) ms, n the number of failures before it
C20_RetryWaits ==
    [][ \A t \in Tabs :
            runs'[t].attempt = runs[t].attempt + 1
            => runs'[t].waited = retryDelay(runs[t].attempt) ]_vars

----------------------------------------------------------------------------
(* The two createSignatureMessage functions side by side: the one of the   *)
(* client (sip-service) and the one of the server (signature-verify), on   *)
(* the same action and parameters at the same instant                      *)

RECURSIVE Join(_, _)
\* Array.prototype.join
Join(parts, separator) ==
    IF Len(parts) = 0 THEN << >>
    ELSE IF Len(parts) = 1 THEN parts[1]
    ELSE Join(SubSeq(parts, 1, Len(parts) - 1), separator)
            \o separator \o parts[Len(parts)]

\* signature-verify createSignatureMessage
serverCreateSignatureMessage(action, params, nonce) ==
    LET entries == [i \in 1..Len(params) |->
                      <<Txt(params[i][1]), Txt(": ")>> \o params[i][2]]
        paramsStr == Join(entries, <<Txt(", ")>>)
    IN  action \o <<Txt("\n")>> \o paramsStr
               \o <<Txt("\n"), Txt("Nonce"), Txt(": "), Num(nonce)>>

\* the call: action, params and the value Date.now() has during it
Call(action, params, nonce) ==
    [method |-> "BUILD", body |-> NoBody, consumed |-> FALSE,
     action |-> action, params |-> params, nonce |-> nonce]

NotBuilt ==
    [method |-> "BUILD", code |-> 0, error |-> "", valid |-> FALSE,
     address |-> "", client |-> EmptyString, server |-> EmptyString]

MessageInit ==
    /\ now = StartTime
    /\ users = << >>
    /\ sips = << >>
    /\ last = NotBuilt
    /\ AgentAtRest
    /\ listing = NoListing
    /\ \E action \in CodecActions, params \in CodecParams,
          offset \in NonceOffsets :
          wire = Call(action, params, now + offset)

BuildOnClient ==
    /\ last' = [last EXCEPT !.client =
                  createSignatureMessage(wire.action, wire.params, wire.nonce)]
    /\ UNCHANGED <<now, users, sips, wire, listing>>
    /\ UNCHANGED agentVars

BuildOnServer ==
    /\ last' = [last EXCEPT !.server =
                  serverCreateSignatureMessage(wire.action, wire.params, wire.nonce)]
    /\ UNCHANGED <<now, users, sips, wire, listing>>
    /\ UNCHANGED agentVars

MessageNext ==
    \/ BuildOnClient
    \/ BuildOnServer

SpecMessage == MessageInit /\ [][MessageNext]_vars

\* where the line breaks of a message are
LineBreaks(message) == { i \in 1..Len(message) : message[i] = Txt("\n") }

\* the three lines the format prescribes for a call
IsThreeLines(message, call) ==
    LET breaks == LineBreaks(message)
        first == Min(breaks)
        second == Max(breaks)
        n == Len(call.params)
    IN  /\ Cardinality(breaks) = 2
        /\ SubSeq(message, 1, first - 1) = call.action
        /\ SubSeq(message, second + 1, Len(message))
              = <<Txt("Nonce"), Txt(": "), Num(call.nonce)>>
        /\ n = 0 => second = first + 1
        /\ \E start \in [1..n -> first..second] :
              \A i \in 1..n :
                 LET value == call.params[i][2]
                     end == start[i] + 1 + Len(value)
                 IN  /\ start[i] = IF i = 1 THEN first + 1
                                   ELSE start[i - 1] + 3
                                          + Len(call.params[i - 1][2])
                     /\ end < second
                     /\ SubSeq(message, start[i], end)
                           = <<Txt(call.params[i][1]), Txt(": ")>> \o value
                     /\ IF i < n THEN message[end + 1] = Txt(", ")
                                 ELSE end + 1 = second

\* C21: for the same action, parameters and nonce the client's and the
\* server's createSignatureMessage give the same string, and the string is
\* three lines: the action, the `key: value` entries in the caller's order
\* joined by ", ", and `Nonce: <milliseconds>`
C21_SameThreeLines ==
    /\ (last.client # EmptyString /\ last.server # EmptyString)
          => last.client = last.server
    /\ last.client # EmptyString => IsThreeLines(last.client, wire)
    /\ last.server # EmptyString => IsThreeLines(last.server, wire)

\* both sides have built the message of a call with two parameters
C21_Witness ==
    /\ last.client # EmptyString
    /\ last.server # EmptyString
    /\ Len(wire.params) = 2

----------------------------------------------------------------------------
(* Properties of the plan store *)

\* the plan the request in flight names is in the plan store
NamesPlan == wire.body.sipId \in 1..Len(sips)

C23_NeverDeleted ==
    [][ /\ Len(sips') >= Len(sips)
        /\ \A i \in 1..Len(sips) : sips'[i].id = sips[i].id
        /\ ( /\ Handles
             /\ last'.method = "PATCH"
             /\ last'.code = 200
             /\ NamesPlan
             /\ wire.body.status = "cancelled" )
              => /\ sips'[wire.body.sipId].status = "cancelled"
                 /\ sips'[wire.body.sipId].id = wire.body.sipId ]_vars

\* a plan was cancelled and is still in the store
C23_Witness ==
    /\ last.method = "PATCH"
    /\ last.code = 200
    /\ NamesPlan
    /\ wire.body.status = "cancelled"
    /\ sips[wire.body.sipId].status = "cancelled"

\* verifySignature is reached: no required field of the body is missing
FieldsPresent ==
    /\ wire.body.message # EmptyString
    /\ wire.body.signature # NoSignature
    /\ wire.method = "POST"
          => /\ wire.body.assetName # ""
             /\ wire.body.assetIndex # Undefined
             /\ wire.body.monthlyAmountUsdc # 0
    /\ wire.method = "PATCH"
          => /\ wire.body.sipId # 0
             /\ wire.body.status # ""

\* the request in flight has no nonce, an expired or a future-dated one, or
\* a signature no address can be recovered from
VerificationFails ==
    \/ NonceMatch(wire.body.message) = -1
    \/ Age > SIGNATURE_EXPIRY_MS
    \/ Age < -FUTURE_SKEW_MS
    \/ wire.body.signature = Malformed

\* C24: a POST or PATCH whose signature verification fails is answered 401
\* and changes neither the plans nor the users
C24_FailedVerificationIs401 ==
    [][ (Handles /\ FieldsPresent /\ VerificationFails)
          => (last'.code = 401 /\ sips' = sips /\ users' = users) ]_vars

\* an expired status change on a persisted plan was refused
C24_Witness ==
    /\ last.method = "PATCH"
    /\ FieldsPresent
    /\ Age > SIGNATURE_EXPIRY_MS
    /\ NamesPlan
    /\ last.code = 401

\* C25: the nonce whose freshness verifySignature judges is the one on the
\* last line of the message, whatever the action and the parameter values
\* contain: the verdicts "Signature expired" and "Invalid nonce timestamp"
\* are those of the age of that nonce
C25_TrailingNonceDecides ==
    last.method = "VERIFY"
    => LET age == now - TrailingNonce(wire.body.message)
       IN  /\ (last.error = "Signature expired") = (age > SIGNATURE_EXPIRY_MS)
           /\ (last.error = "Invalid nonce timestamp")
                 = (age <= SIGNATURE_EXPIRY_MS /\ age < -FUTURE_SKEW_MS)

\* the message the client writes for the fields of the body in flight, with
\* the nonce of the message in flight
MessageOfBody ==
    IF wire.method = "POST"
    THEN CreateMessage(wire.body.assetName, wire.body.monthlyAmountUsdc,
                       TrailingNonce(wire.body.message))
    ELSE UpdateMessage(wire.body.sipId, wire.body.status,
                       TrailingNonce(wire.body.message))

\* C27: an accepted request applies what its signer signed: the text under
\* the signature is the message in the body, and it names the asset and the
\* amount (the plan id and the status) that the handler takes from the body
C27_AppliesWhatWasSigned ==
    [][ (Handles /\ last'.code = 200)
          => /\ wire.body.signature.msg = wire.body.message
             /\ wire.body.message = MessageOfBody ]_vars

\* C30: a GET changes neither the plans nor the users, for a known and for
\* an unknown wallet address
C30_ListingIsReadOnly ==
    [][ (listing'.code # 0 /\ now' = now)
          => (users' = users /\ sips' = sips) ]_vars

----------------------------------------------------------------------------
(* Status changes in a store of several plans *)

\* client updateSIPStatus for any plan id the store can hold
SendUpdate ==
    \E key \in Wallets, id \in 1..MaxPlans, st \in PatchStatuses :
        Send("PATCH", UpdateBody(key, id, st, now))

StatusNext ==
    \/ Tick
    \/ CreatePlan
    \/ SendUpdate
    \/ PATCH

SpecStatus == Init /\ [][StatusNext]_vars

\* C26: a successful status change changes the status and updated_at of the
\* plan it names and nothing else: the owner, asset name, asset index, amount
\* and created_at of that plan, and every other plan, are as before
C26_OnlyStatusAndUpdatedAt ==
    [][ ( /\ Handles
          /\ last'.method = "PATCH"
          /\ last'.code = 200
          /\ Len(sips') = Len(sips) )
          => /\ users' = users
             /\ \A i \in 1..Len(sips) :
                   IF i = wire.body.sipId
                   THEN /\ sips'[i] = [sips[i] EXCEPT
                                         !.status = wire.body.status,
                                         !.updated_at = now]
                   ELSE sips'[i] = sips[i] ]_vars

\* the first of two plans was paused after the clock advanced; the second
\* plan is as it was created
C26_Witness ==
    /\ Len(sips) = 2
    /\ last.method = "PATCH"
    /\ last.code = 200
    /\ wire.body.sipId = 1
    /\ sips[1].status = "paused"
    /\ sips[1].updated_at > sips[1].created_at
    /\ sips[2].status = "active"
    /\ sips[2].updated_at = sips[2].created_at

----------------------------------------------------------------------------
(* One tab whose wallet is switched during the session *)

SessionTab == "t1"

\* the dashboard renders the hook with the connected address
Connect ==
    \E hook \in Hooks, address \in Wallets :
        /\ runs[SessionTab].pc = "idle"
        /\ runs' = [runs EXCEPT ![SessionTab] =
                      Started(SessionTab, hook, address,
                              store[SessionTab].exchangeClient, 0, 0)]
        /\ UNCHANGED <<serverVars, listing, storage, exchange, store>>

\* useAccount returns another address once the bootstrap has settled.  The
\* effect runs again and returns at once because data is set; the query key
\* changes, and the query function runs unless the query of that address
\* still holds its result (staleTime: Infinity) - the result may have been
\* collected in the meantime
SwitchWallet ==
    \E address \in Wallets, collected \in BOOLEAN :
        LET r == runs[SessionTab]
        IN  /\ r.pc \in {"done", "error"}
            /\ address # r.connected
            /\ runs' = [runs EXCEPT ![SessionTab] =
                  IF r.hook = "effect"
                    THEN [r EXCEPT !.connected = address]
                  ELSE IF address \in r.cached /\ ~collected
                    THEN [r EXCEPT !.connected = address, !.address = address,
                                   !.pc = "done", !.initialized = TRUE]
                    ELSE [Started(SessionTab, "query", address,
                                  store[SessionTab].exchangeClient, 0, 0)
                            EXCEPT !.cached = r.cached \ {address}]]
            /\ UNCHANGED <<serverVars, listing, storage, exchange, store>>

SessionNext ==
    \/ Connect
    \/ SwitchWallet
    \/ ReadKey
    \/ WriteKey
    \/ InitExchange
    \/ Check
    \/ Approve
    \/ Register
    \/ Retry
    \/ Rerun

SpecSession == Init /\ [][SessionNext]_vars

\* C28: when the bootstrap of the tab has settled with a result and an agent
\* client is registered, the agent client signs with the key stored for the
\* address that is connected now, also after the wallet was switched
C28_AgentOfConnectedWallet ==
    LET r == runs[SessionTab]
    IN  (r.pc = "done" /\ store[SessionTab].agentClient # NoKey)
          => store[SessionTab].agentClient
                = getAgentPrivateKey(storage, r.connected)

----------------------------------------------------------------------------
(* initializeAgent and the bootstrap of the effect hook side by side: tab   *)
(* t1 runs the service for 0xAAA, tab t2 the effect hook for 0xBBB, from    *)
(* the same starting state                                                  *)

SideHook == [t \in Tabs |-> IF t = "t1" THEN "query" ELSE "effect"]

SideAddress == [t \in Tabs |-> IF t = "t1" THEN "0xAAA" ELSE "0xBBB"]

\* the key localStorage holds for the side's address, when it holds one
SideKey == [t \in Tabs |-> IF t = "t1" THEN 1 ELSE 2]

\* the key of the agent client the store still holds after localStorage was
\* cleared
FormerKey == [t \in Tabs |-> IF t = "t1" THEN 3 ELSE 4]

EquivInit ==
    /\ now = StartTime
    /\ users = << >>
    /\ sips = << >>
    /\ wire = NoRequest
    /\ last = Idle
    /\ listing = NoListing
    /\ \E keyPresent \in BOOLEAN, exchangePresent \in BOOLEAN,
          agentPresent \in BOOLEAN, approved \in BOOLEAN :
          /\ storage = [a \in StorageAddresses |->
                          IF keyPresent /\ \E t \in Tabs : SideAddress[t] = a
                            THEN SideKey[CHOOSE t \in Tabs : SideAddress[t] = a]
                            ELSE NoKey]
          /\ exchange = IF keyPresent /\ approved
                          THEN { [user |-> SideAddress[t],
                                  address |-> createAgentAccount(SideKey[t]).address] :
                                   t \in Tabs }
                          ELSE {}
          /\ store = [t \in Tabs |->
                        [infoClient |-> TRUE,
                         exchangeClient |-> exchangePresent,
                         agentClient |-> IF ~agentPresent THEN NoKey
                                         ELSE IF keyPresent THEN SideKey[t]
                                         ELSE FormerKey[t]]]
          /\ runs = [t \in Tabs |->
                       [RunIdle EXCEPT !.hook = SideHook[t], !.pc = "getKey",
                                       !.address = SideAddress[t],
                                       !.connected = SideAddress[t],
                                       !.infoClient = TRUE,
                                       !.exchangeClient = exchangePresent,
                                       !.agentClient = agentPresent]]

EquivNext ==
    \/ ReadKey
    \/ WriteKey
    \/ InitExchange
    \/ Check
    \/ Approve
    \/ Register

SpecEquiv == EquivInit /\ [][EquivNext]_vars

\* the run of tab t has returned or thrown
Ended(t) == runs[t].pc = "done" \/ Thrown(t)

\* the wallet refused initExchangeClient in the run of tab t
InitRefused(t) == Thrown(t) /\ ~runs[t].checked

\* C29: started in the same state and given the same answers by the wallet
\* and the exchange, initializeAgent and the bootstrap of the effect hook
\* make the same calls and end alike: both return or both throw, both
\* check, both or neither submit the approval, both or neither leave their
\* key in localStorage, an exchange client and their agent in the store
C29_HookAndServiceAgree ==
    LET q == runs["t1"]
        e == runs["t2"]
    IN  ( /\ Ended("t1")
          /\ Ended("t2")
          /\ InitRefused("t1") = InitRefused("t2")
          /\ (q.checked /\ e.checked) => q.response = e.response
          /\ (q.submitted /\ e.submitted) => q.approval = e.approval )
        => /\ (q.pc = "done") = (e.pc = "done")
           /\ q.checked = e.checked
           /\ q.submitted = e.submitted
           /\ (storage[q.address] = q.key) = (storage[e.address] = e.key)
           /\ store["t1"].exchangeClient = store["t2"].exchangeClient
           /\ (store["t1"].agentClient = q.key) = (store["t2"].agentClient = e.key)


====
